---- MODULE Spec2Model ----
(***************************************************************************)
(* Model of tools/seed_issues_from_excel.py: a batch tool that reads rows  *)
(* of a spreadsheet and, per row, ensures labels, looks an issue up by its *)
(* seed label and creates the issue when none is found.                    *)
(*                                                                         *)
(* Strings are sequences of one-character strings, so that strip(),        *)
(* endswith() and f-string concatenation are computed as the code does.    *)
(***************************************************************************)
EXTENDS Integers, Sequences, FiniteSets, TLC

VARIABLES
    xl,          \* the workbook: sequence of sheets [ncols, rows]
    labels,      \* tracker: set of labels [name, color]
    entries,     \* tracker: issues and pull requests, newest first
    serverPrefix,\* tracker: TRUE when its label filter matches by prefix
    calls,       \* the requests the current (or last) run has made
    http,        \* one client call on its own: the answers waiting, gh's result
    reportFile,  \* seed-report.csv: <<"absent">> or <<"written", rows>>
    runs,        \* number of runs started so far
    pc,          \* per process: position in main()
    dry,         \* per process: args.dry_run
    bl,          \* per process: index in base_labels
    idx,         \* per process: 0-based index of the row being processed
    j,           \* per process: index in dyn
    page,        \* per process: page of find_issue_by_seed
    report_rows, \* per process: the in-memory report
    exitCode,    \* per process: exit status of the last run (-1: none yet)
    env,         \* per process: whether the token and the repository are set
    writes       \* per process: times the run has written seed-report.csv

vars == <<xl, labels, entries, serverPrefix, calls, http, reportFile, runs,
          pc, dry, bl, idx, j, page, report_rows, exitCode, env, writes>>

----------------------------------------------------------------------------
(* Bounds *)

MaxRuns == 2
MaxFullPages == 2

Procs == {1, 2}
SeqProcs == {1}

----------------------------------------------------------------------------
(* Strings *)

Space == " "

RECURSIVE LStrip(_)
LStrip(s) == IF s # <<>> /\ Head(s) = Space THEN LStrip(Tail(s)) ELSE s

RECURSIVE RStrip(_)
RStrip(s) ==
    IF s # <<>> /\ s[Len(s)] = Space THEN RStrip(SubSeq(s, 1, Len(s) - 1)) ELSE s

Strip(s) == RStrip(LStrip(s))

EndsWith(s, suf) ==
    /\ Len(suf) <= Len(s)
    /\ SubSeq(s, Len(s) - Len(suf) + 1, Len(s)) = suf

Colon == <<":">>
ColonNan == <<":", "n", "a", "n">>
ColonNaN == <<":", "N", "a", "N">>

SemanaP == <<"S", "e", "m", "a", "n", "a", ":">>
SquadP == <<"S", "Q", "U", "A", "D", ":">>
PapelP == <<"P", "a", "p", "e", "l", ":">>
IaP == <<"I", "A", ":">>
AlunoP == <<"I", "d", "A", "l", "u", "n", "o", ":">>
SeedP == <<"s", "e", "e", "d", ":">>

TipoFeature == <<"T", "i", "p", "o", ":", "f", "e", "a", "t", "u", "r", "e">>
TipoBug == <<"T", "i", "p", "o", ":", "b", "u", "g">>

----------------------------------------------------------------------------
(* The HTTP client *)

per_page == 50

\* A response: its status code and whether "rate limit" occurs in its
\* lower-cased text.  Status 0 stands for requests raising before any
\* response arrived (timeout, connection error).
Resp(status, rl) == [status |-> status, rl |-> rl]

\* a variant that takes every 403 for a rate limit
IsRateLimitAny403(r) == r.status = 403

IsRateLimit(r) == r.status = 403 /\ r.rl

RaiseForStatus(r) == r.status = 0 \/ (r.status >= 400 /\ r.status < 600)

\* gh(): r1 answers the first request, r2 the second one if it is sent.
Gh(r1, r2) ==
    LET retry == IsRateLimit(r1)
        r == IF retry THEN r2 ELSE r1
    IN  [sent |-> IF retry THEN 2 ELSE 1,
         raised |-> RaiseForStatus(r),
         resp |-> r]

----------------------------------------------------------------------------
(* Input: the workbook *)

Row(uid, tarefa, semana, squad, papel, ia, aluno) ==
    [uid |-> uid, tarefa |-> tarefa, semana |-> semana, squad |-> squad,
     papel |-> papel, ia |-> ia, aluno |-> aluno]

E == <<>>

\* Cells as they are after df.fillna(""): always strings here, so that
\* `x or ""` and str(x) leave them as they are.
UidCells == {E, <<" ">>, <<"a">>, <<" ", "b", " ">>, <<"a", ":">>, <<"c", "/", "d">>}
SemanaCells == {E, <<"1">>, <<" ", "n", "a", "n">>, <<"1", "/", "2">>}

PlainRows ==
    {Row(u, <<"t", " ">>, E, E, E, E, E) : u \in UidCells}
    \cup {Row(<<"a">>, E, <<"1">>, E, E, E, E),
          Row(<<"a">>, <<" ">>, <<"1">>, E, E, E, E)}
    \cup {Row(<<"a">>, <<"t">>, s, E, E, E, E) : s \in SemanaCells}
    \cup {Row(<<"a">>, <<"t">>, <<"1">>, <<"N", "a", "N">>, <<"x", ":">>, <<" ">>, <<"7">>)}

FirstRows ==
    {Row(u, <<"t", " ">>, E, E, E, E, E) : u \in {E, <<"a">>, <<"a", ":">>}}
    \cup {Row(<<"a">>, <<"t">>, s, E, E, E, E) : s \in {<<"1">>, <<"1", "/", "2">>}}

SecondRows ==
    {Row(<<"a">>, <<"u">>, <<"1">>, E, E, E, E),
     Row(<<"b">>, <<"t">>, <<"1", "/", "2">>, E, E, E, E),
     Row(E, <<"t">>, <<"1">>, E, E, E, E)}

Sheet(rows) == [ncols |-> 8, rows |-> rows]
BlankSheet == [ncols |-> 0, rows |-> <<>>]

Workbooks ==
    {<<BlankSheet>>, <<Sheet(<<>>)>>}
    \cup {<<Sheet(<<r>>)>> : r \in PlainRows}
    \cup {<<Sheet(<<r1, r2>>)>> : r1 \in FirstRows, r2 \in SecondRows}
    \cup {<<Sheet(<<r>>), BlankSheet, Sheet(<<r>>)>> : r \in SecondRows}

\* frames: the sheets that have columns (lines 106-112)
Frames(book) == SelectSeq(book, LAMBDA s : s.ncols # 0)

RECURSIVE Concat(_)
Concat(frames) ==
    IF frames = <<>> THEN <<>> ELSE Head(frames).rows \o Concat(Tail(frames))

\* df: pd.concat(frames, ignore_index=True)
Df == Concat(Frames(xl))

----------------------------------------------------------------------------
(* Per-row computations of main() *)

base_labels == << [name |-> TipoFeature, color |-> "3BA55D"],
                  [name |-> TipoBug, color |-> "ED4245"] >>

SeedUid(row) == Strip(row.uid)
Titulo(row) == Strip(row.tarefa)

\* a variant that checks the seed id alone
InvalidUidOnly(row) == SeedUid(row) = <<>>

\* line 136
Invalid(row) == SeedUid(row) = <<>> \/ Titulo(row) = <<>>

\* lines 148-155
Dyn(row) ==
    << [name |-> SemanaP \o Strip(row.semana), color |-> "7289DA"],
       [name |-> SquadP \o Strip(row.squad), color |-> "99AAB5"],
       [name |-> PapelP \o Strip(row.papel), color |-> "FEE75C"],
       [name |-> IaP \o Strip(row.ia), color |-> "FAA61A"],
       [name |-> AlunoP \o Strip(row.aluno), color |-> "57F287"],
       [name |-> SeedP \o SeedUid(row), color |-> "99AAB5"] >>

\* line 157: the names the ensure loop passes over
Suppressed(name) ==
    EndsWith(name, Colon) \/ EndsWith(name, ColonNan) \/ EndsWith(name, ColonNaN)

\* line 168: the names left out of the payload
PayloadOmits(name) == EndsWith(name, Colon)

PayloadLabels(row) ==
    LET kept == SelectSeq(Dyn(row), LAMBDA d : ~PayloadOmits(d.name))
    IN  [k \in 1..Len(kept) |-> kept[k].name]

Range(s) == {s[k] : k \in 1..Len(s)}

\* build_body: the non-blank fields in their fixed order, then the marker
BuildBody(row) ==
    LET fields == << <<"Semana", row.semana>>, <<"SQUAD", row.squad>>,
                     <<"Papel", row.papel>>, <<"Id Aluno", row.aluno>>,
                     <<"IA", row.ia>>, <<"Tarefa", row.tarefa>> >>
    IN  SelectSeq(fields, LAMBDA f : Strip(f[2]) # <<>>)
            \o << <<"seed_id", Strip(row.uid)>> >>

----------------------------------------------------------------------------
(* The tracker, as the tool's requests see it *)

LabelNames == {l.name : l \in labels}

\* GET /repos/{repo}/labels/{name}: the name is put in the path as it is,
\* so a name holding "/" addresses no label route.
RouteLabel(name) == IF "/" \in Range(name) THEN <<"no route">> ELSE name

GetLabelResp(name) ==
    IF RouteLabel(name) \in LabelNames THEN Resp(200, FALSE) ELSE Resp(404, FALSE)

\* POST /repos/{repo}/labels: 422 when the name is taken
PostLabelResp(name) ==
    IF name \in LabelNames THEN Resp(422, FALSE) ELSE Resp(201, FALSE)

\* GET /repos/{repo}/issues?state=all&labels=<label>: issues and pull
\* requests carrying the label, newest first.  The tracker filters by the
\* exact name; find_issue_by_seed is also run against one that filters by
\* prefix, which its own filter (lines 59-60) is there for.
IsPrefix(a, b) == Len(a) <= Len(b) /\ SubSeq(b, 1, Len(a)) = a

ServerMatches(label, e) ==
    IF serverPrefix THEN \E l \in e.labels : IsPrefix(label, l) ELSE label \in e.labels

Listing(label) == SelectSeq(entries, LAMBDA e : ServerMatches(label, e))

Min(a, b) == IF a < b THEN a ELSE b

\* a variant that counts pages from 0, which the tracker takes for page 1
PageOfZeroBased(listing, pg) ==
    LET q == IF pg > 1 THEN pg - 1 ELSE 1
    IN  SubSeq(listing, (q - 1) * per_page + 1, Min(q * per_page, Len(listing)))

PageOf(listing, pg) ==
    SubSeq(listing, (pg - 1) * per_page + 1, Min(pg * per_page, Len(listing)))

None == [number |-> 0]

\* a variant that does not tell pull requests from issues
RECURSIVE ScanAnyKind(_, _)
ScanAnyKind(items, label) ==
    IF items = <<>> THEN None
    ELSE IF label \in Head(items).labels THEN Head(items)
    ELSE ScanAnyKind(Tail(items), label)

\* a variant that trusts the tracker's filter and takes the first issue
RECURSIVE ScanFirstIssue(_, _)
ScanFirstIssue(items, label) ==
    IF items = <<>> THEN None
    ELSE IF ~Head(items).pr THEN Head(items)
    ELSE ScanFirstIssue(Tail(items), label)

\* lines 56-61: the first item that is no pull request and has the label
RECURSIVE Scan(_, _)
Scan(items, label) ==
    IF items = <<>> THEN None
    ELSE IF ~Head(items).pr /\ label \in Head(items).labels THEN Head(items)
    ELSE Scan(Tail(items), label)

HtmlUrl(e) == <<"issue", e.number>>

NewIssue(row) ==
    [number |-> Len(entries) + 1, pr |-> FALSE, labels |-> Range(PayloadLabels(row)),
     title |-> Titulo(row), body |-> BuildBody(row)]

\* Faults a request may meet instead of the tracker's answer
Faults == {Resp(403, TRUE), Resp(500, FALSE)}

\* One request's answer: the tracker's own, or a fault
Answers(honest) == {honest} \cup Faults

\* A full page of pull requests that carry the label seed:a
PrEntry(n) ==
    [number |-> n, pr |-> TRUE, labels |-> {SeedP \o <<"a">>},
     title |-> <<"p">>, body |-> <<>>]
PrPage == [n \in 1..per_page |-> PrEntry(per_page + 1 - n)]

Call(p, method, path, arg, names) ==
    [row |-> IF pc[p] \in {"base_get", "base_post"} THEN 0 ELSE idx[p] + 1,
     dry |-> dry[p], method |-> method, path |-> path, arg |-> arg, names |-> names]

----------------------------------------------------------------------------
(* Initial state *)

Init ==
    /\ xl \in Workbooks
    /\ \/ labels = {} /\ entries = <<>>
       \/ /\ labels = {[name |-> SeedP \o <<"a">>, color |-> "99AAB5"]}
          /\ entries = PrPage
    /\ serverPrefix = FALSE
    /\ calls = {}
    /\ http = <<>>
    /\ reportFile = <<"absent">>
    /\ runs = 0
    /\ pc = [p \in Procs |-> "idle"]
    /\ dry = [p \in Procs |-> FALSE]
    /\ bl = [p \in Procs |-> 1]
    /\ idx = [p \in Procs |-> 0]
    /\ j = [p \in Procs |-> 1]
    /\ page = [p \in Procs |-> 1]
    /\ report_rows = [p \in Procs |-> <<>>]
    /\ exitCode = [p \in Procs |-> -1]
    /\ env = [p \in Procs |-> [token |-> TRUE, repo |-> TRUE]]
    /\ writes = [p \in Procs |-> 0]

----------------------------------------------------------------------------
(* main() *)

Stopped(p) == pc[p] \in {"idle", "exited"}

\* the process ends with the given exit status; its memory is gone
Exit(p, code) ==
    /\ pc' = [pc EXCEPT ![p] = "exited"]
    /\ exitCode' = [exitCode EXCEPT ![p] = code]
    /\ report_rows' = [report_rows EXCEPT ![p] = <<>>]
    /\ bl' = [bl EXCEPT ![p] = 1]
    /\ idx' = [idx EXCEPT ![p] = 0]
    /\ j' = [j EXCEPT ![p] = 1]
    /\ page' = [page EXCEPT ![p] = 1]

\* an exception nobody catches: traceback, exit status 1
Uncaught(p) == Exit(p, 1)

\* a variant that stops only when both are missing
MissingConfigBoth(token, repo) == ~token /\ ~repo

\* line 98
MissingConfig(token, repo) == ~token \/ ~repo

\* lines 91-116: arguments, environment, workbook
Startup(p) ==
    /\ runs < MaxRuns
    /\ runs' = runs + 1
    /\ \E d \in BOOLEAN, token \in BOOLEAN, repo \in BOOLEAN :
        /\ dry' = [dry EXCEPT ![p] = d]
        /\ env' = [env EXCEPT ![p] = [token |-> token, repo |-> repo]]
        /\ IF MissingConfig(token, repo) THEN Exit(p, 2)
           ELSE IF Frames(xl) = <<>> THEN Exit(p, 3)
           ELSE /\ pc' = [pc EXCEPT ![p] = "base_get"]
                /\ exitCode' = [exitCode EXCEPT ![p] = -1]
                /\ report_rows' = [report_rows EXCEPT ![p] = <<>>]
                /\ bl' = [bl EXCEPT ![p] = 1]
                /\ idx' = [idx EXCEPT ![p] = 0]
                /\ j' = [j EXCEPT ![p] = 1]
                /\ page' = [page EXCEPT ![p] = 1]
    /\ writes' = [writes EXCEPT ![p] = 0]
    /\ calls' = {}
    /\ UNCHANGED <<xl, serverPrefix, http, labels, entries, reportFile>>

\* a run started when no other run is going on
StartRun(p) ==
    /\ \A q \in Procs : Stopped(q)
    /\ Startup(p)

CurRow(p) == Df[idx[p] + 1]

\* the label ensure_label is working on
CurLabel(p) ==
    IF pc[p] \in {"base_get", "base_post"} THEN base_labels[bl[p]]
    ELSE Dyn(CurRow(p))[j[p]]

\* ensure_label returned: next base label, next dyn label, or the lookup
AfterEnsure(p) ==
    IF pc[p] \in {"base_get", "base_post"}
    THEN /\ bl' = [bl EXCEPT ![p] = bl[p] + 1]
         /\ pc' = [pc EXCEPT ![p] =
                     IF bl[p] = Len(base_labels) THEN "row" ELSE "base_get"]
         /\ UNCHANGED <<idx, j, page, report_rows, exitCode>>
    ELSE /\ j' = [j EXCEPT ![p] = j[p] + 1]
         /\ pc' = [pc EXCEPT ![p] = IF j[p] = Len(Dyn(CurRow(p))) THEN "lookup" ELSE "dyn_get"]
         /\ UNCHANGED <<bl, idx, page, report_rows, exitCode>>

\* a variant that brings the colour of a label it finds up to date
EnsureGetUpdating(p) ==
    /\ pc[p] \in {"base_get", "dyn_get"}
    /\ pc[p] = "dyn_get" => ~Suppressed(CurLabel(p).name)
    /\ LET name == CurLabel(p).name IN
       \E r1 \in Answers(GetLabelResp(name)), r2 \in Answers(GetLabelResp(name)) :
            LET g == Gh(r1, r2) IN
            IF ~g.raised
            THEN /\ calls' = calls \cup {Call(p, "GET", "labels/name", name, {}),
                                         Call(p, "PATCH", "labels/name", name, {name})}
                 /\ labels' = {l \in labels : l.name # name}
                                \cup {[name |-> name, color |-> CurLabel(p).color]}
                 /\ AfterEnsure(p)
            ELSE /\ calls' = calls \cup {Call(p, "GET", "labels/name", name, {})}
                 /\ UNCHANGED labels
                 /\ IF g.resp.status = 404
                    THEN /\ pc' = [pc EXCEPT ![p] =
                                    IF pc[p] = "base_get" THEN "base_post" ELSE "dyn_post"]
                         /\ UNCHANGED <<bl, idx, j, page, report_rows, exitCode>>
                    ELSE Uncaught(p)
    /\ UNCHANGED <<xl, serverPrefix, http, env, writes, entries, reportFile, runs, dry>>

\* line 30: the existence check of ensure_label
EnsureGet(p) ==
    /\ pc[p] \in {"base_get", "dyn_get"}
    /\ pc[p] = "dyn_get" => ~Suppressed(CurLabel(p).name)
    /\ LET name == CurLabel(p).name IN
       /\ calls' = calls \cup {Call(p, "GET", "labels/name", name, {})}
       /\ \E r1 \in Answers(GetLabelResp(name)), r2 \in Answers(GetLabelResp(name)) :
            LET g == Gh(r1, r2) IN
            IF ~g.raised THEN AfterEnsure(p)
            ELSE IF g.resp.status = 404
            THEN /\ pc' = [pc EXCEPT ![p] =
                            IF pc[p] = "base_get" THEN "base_post" ELSE "dyn_post"]
                 /\ UNCHANGED <<bl, idx, j, page, report_rows, exitCode>>
            ELSE Uncaught(p)
    /\ UNCHANGED <<xl, serverPrefix, http, env, writes, labels, entries, reportFile, runs, dry>>

\* lines 33-35: the creation of ensure_label
EnsurePost(p) ==
    /\ pc[p] \in {"base_post", "dyn_post"}
    /\ LET name == CurLabel(p).name IN
       /\ calls' = calls \cup {Call(p, "POST", "labels", name, {name})}
       /\ \E r1 \in Answers(PostLabelResp(name)), r2 \in Answers(PostLabelResp(name)) :
            LET g == Gh(r1, r2) IN
            IF ~g.raised
            THEN /\ labels' = labels \cup {[name |-> name, color |-> CurLabel(p).color]}
                 /\ AfterEnsure(p)
            ELSE /\ UNCHANGED labels
                 /\ Uncaught(p)
    /\ UNCHANGED <<xl, serverPrefix, http, env, writes, entries, reportFile, runs, dry>>

\* lines 156-158: a name the loop passes over
DynSkip(p) ==
    /\ pc[p] = "dyn_get"
    /\ Suppressed(CurLabel(p).name)
    /\ AfterEnsure(p)
    /\ UNCHANGED <<xl, serverPrefix, http, env, writes, labels, entries, calls, reportFile, runs, dry>>

\* a variant that numbers the rows from 0
Append6ZeroBased(p, status, url, reason, err) ==
    report_rows' = [report_rows EXCEPT ![p] =
        Append(@, <<status, idx[p], Titulo(CurRow(p)), url, reason, err>>)]

\* the six values appended to report_rows (lines 137, 164, 170, 176, 179)
Append6(p, status, url, reason, err) ==
    report_rows' = [report_rows EXCEPT ![p] =
        Append(@, <<status, idx[p] + 1, Titulo(CurRow(p)), url, reason, err>>)]

\* `continue`, or the end of the loop body: on to the next row
NextRow(p) ==
    /\ idx' = [idx EXCEPT ![p] = idx[p] + 1]
    /\ j' = [j EXCEPT ![p] = 1]
    /\ page' = [page EXCEPT ![p] = 1]
    /\ pc' = [pc EXCEPT ![p] = "row"]
    /\ UNCHANGED <<bl, exitCode>>

MissingReason == <<"missing uid/title">>

\* lines 133-138
RowSkip(p) ==
    /\ pc[p] = "row"
    /\ idx[p] < Len(Df)
    /\ Invalid(CurRow(p))
    /\ Append6(p, "skip", <<>>, MissingReason, <<>>)
    /\ NextRow(p)
    /\ UNCHANGED <<xl, serverPrefix, http, env, writes, labels, entries, calls, reportFile, runs, dry>>

\* lines 133-155
RowValid(p) ==
    /\ pc[p] = "row"
    /\ idx[p] < Len(Df)
    /\ ~Invalid(CurRow(p))
    /\ pc' = [pc EXCEPT ![p] = "dyn_get"]
    /\ j' = [j EXCEPT ![p] = 1]
    /\ UNCHANGED <<xl, serverPrefix, http, env, writes, labels, entries, calls, reportFile, runs, dry,
                   bl, idx, page, report_rows, exitCode>>

SeedLabel(row) == SeedP \o SeedUid(row)

\* a variant that goes on to the creation whatever args.dry_run is
NotFoundIgnoringDry(p) ==
    /\ pc' = [pc EXCEPT ![p] = "create"]
    /\ UNCHANGED <<bl, idx, j, page, report_rows, exitCode>>

\* find_issue_by_seed returned None: lines 167-171
NotFound(p) ==
    IF dry[p]
    THEN /\ Append6(p, "dry-run", <<>>, <<>>, <<>>)
         /\ NextRow(p)
    ELSE /\ pc' = [pc EXCEPT ![p] = "create"]
         /\ UNCHANGED <<bl, idx, j, page, report_rows, exitCode>>

\* lines 47-64 and 162-165: one page of find_issue_by_seed
LookupPage(p) ==
    /\ pc[p] = "lookup"
    /\ LET label == SeedLabel(CurRow(p))
           items == PageOf(Listing(label), page[p])
           it == Scan(items, label)
       IN
       /\ calls' = calls \cup {Call(p, "GET", "issues", label, {})}
       /\ \E r1 \in Answers(Resp(200, FALSE)), r2 \in Answers(Resp(200, FALSE)) :
            LET g == Gh(r1, r2) IN
            IF g.raised THEN Uncaught(p)
            ELSE IF items = <<>> THEN NotFound(p)
            ELSE IF it # None
            THEN /\ Append6(p, "exists", HtmlUrl(it), label, <<>>)
                 /\ NextRow(p)
            ELSE IF Len(items) < per_page THEN NotFound(p)
            ELSE /\ page' = [page EXCEPT ![p] = page[p] + 1]
                 /\ UNCHANGED <<pc, bl, idx, j, report_rows, exitCode>>
    /\ UNCHANGED <<xl, serverPrefix, http, env, writes, labels, entries, reportFile, runs, dry>>

\* a variant that records no message for a failed creation
ErrMsgEmpty(r) == <<>>

\* line 177: str(e) of the exception the failed call raised
ErrMsg(r) == <<"HTTPError", r.status>>

\* lines 173-179
CreateIssue(p) ==
    /\ pc[p] = "create"
    /\ LET row == CurRow(p)
           issue == NewIssue(row)
       IN
       /\ calls' = calls \cup
            {Call(p, "POST", "issues", Titulo(row), Range(PayloadLabels(row)))}
       /\ \E r1 \in Answers(Resp(201, FALSE)), r2 \in Answers(Resp(201, FALSE)) :
            LET g == Gh(r1, r2) IN
            IF ~g.raised
            THEN /\ entries' = <<issue>> \o entries
                 /\ labels' = labels \cup
                      {[name |-> n, color |-> "ededed"] : n \in issue.labels \ LabelNames}
                 /\ Append6(p, "created", HtmlUrl(issue), SeedLabel(row), <<>>)
            ELSE /\ UNCHANGED <<entries, labels>>
                 /\ Append6(p, "error", <<>>, <<>>, ErrMsg(g.resp))
       /\ NextRow(p)
    /\ UNCHANGED <<xl, serverPrefix, http, env, writes, reportFile, runs, dry>>

\* lines 181-187: the loop is over; write the report, exit 0
SaveReport(p) ==
    /\ pc[p] = "row"
    /\ idx[p] = Len(Df)
    /\ reportFile' = <<"written", report_rows[p]>>
    /\ writes' = [writes EXCEPT ![p] = writes[p] + 1]
    /\ Exit(p, 0)
    /\ UNCHANGED <<xl, serverPrefix, http, env, labels, entries, calls, runs, dry>>

Step(p) ==
    \/ EnsureGet(p)
    \/ EnsurePost(p)
    \/ DynSkip(p)
    \/ RowSkip(p)
    \/ RowValid(p)
    \/ LookupPage(p)
    \/ CreateIssue(p)
    \/ SaveReport(p)

\* runs one after the other
Next == \E p \in SeqProcs : StartRun(p) \/ Step(p)

Spec == Init /\ [][Next]_vars

----------------------------------------------------------------------------
(* Properties of the batch (specification Spec) *)

\* the issues the tool created, told by the marker line of their body
ToolIssues == {k \in DOMAIN entries : entries[k].body # <<>>}
MarkerOf(e) == e.body[Len(e.body)][2]

NonPrWith(label) == {k \in DOMAIN entries : ~entries[k].pr /\ label \in entries[k].labels}

\* C1 -- Idempotence: over sequential runs at most one issue is created per
\* seed id, and once an issue made for a seed id exists no row with that seed
\* id gets as far as the create-issue call.
C1_Idempotence ==
    /\ \A a \in ToolIssues, b \in ToolIssues :
          MarkerOf(entries[a]) = MarkerOf(entries[b]) => a = b
    /\ \A p \in Procs : pc[p] = "create" =>
          \A k \in ToolIssues : MarkerOf(entries[k]) # SeedUid(CurRow(p))

InRow(p) == pc[p] \in {"dyn_get", "dyn_post", "lookup", "create"}

\* C2 -- Row-local error containment: no step taken while a row is being
\* processed ends the run; a failed call leads on to the next row.
C2_RowErrorsContained ==
    [][\A p \in Procs : InRow(p) => pc'[p] # "exited"]_vars

\* C3 -- Completeness: a run that passed the startup checks ends with exit
\* status 0 and a written report holding one record per input row.
C3_Completeness ==
    \A p \in Procs :
        (pc[p] = "exited" /\ exitCode[p] \notin {2, 3}) =>
            /\ exitCode[p] = 0
            /\ reportFile[1] = "written"
            /\ Len(reportFile[2]) = Len(Df)

BlankRow(row) == Strip(row.uid) = <<>> \/ Strip(row.tarefa) = <<>>

\* C4 -- Validity gate: a row whose trimmed seed id or title is empty makes
\* no request and is recorded ("skip", n, title, "", "missing uid/title", "").
C4_ValidityGate ==
    /\ \A c \in calls : c.row # 0 => ~BlankRow(Df[c.row])
    /\ \A p \in Procs : \A k \in 1..Len(report_rows[p]) :
          BlankRow(Df[k]) =>
            report_rows[p][k] = <<"skip", k, Titulo(Df[k]), <<>>, MissingReason, <<>>>>

C4_Witness ==
    /\ \E k \in 1..Len(report_rows[1]) : report_rows[1][k][1] = "skip"
    /\ \E c \in calls : c.row # 0

EnsuredNames(row) == {d.name : d \in {x \in Range(Dyn(row)) : ~Suppressed(x.name)}}

\* C5 -- Dry-run purity: a dry run never posts an issue; each valid row it
\* records had its labels ensured and its seed looked up, and is recorded
\* "dry-run" when no issue carries its seed label.
C5_DryRunPurity ==
    /\ \A c \in calls : c.dry => ~(c.method = "POST" /\ c.path = "issues")
    /\ \A p \in Procs : dry[p] =>
          \A k \in 1..Len(report_rows[p]) :
             ~BlankRow(Df[k]) =>
                /\ \A n \in EnsuredNames(Df[k]) :
                      \E c \in calls : /\ c.dry /\ c.row = k /\ c.method = "GET"
                                       /\ c.path = "labels/name" /\ c.arg = n
                /\ \E c \in calls : /\ c.dry /\ c.row = k /\ c.method = "GET"
                                    /\ c.path = "issues" /\ c.arg = SeedLabel(Df[k])
                /\ report_rows[p][k][1] \in {"exists", "dry-run"}
                /\ NonPrWith(SeedLabel(Df[k])) = {} <=> report_rows[p][k][1] = "dry-run"

C5_Witness ==
    /\ dry[1]
    /\ \E k \in 1..Len(report_rows[1]) :
          report_rows[1][k][1] = "dry-run" /\ EnsuredNames(Df[k]) # {}

\* C6 -- A dry run leaves the tracker's labels and issues as they were.
C6_DryRunFrame ==
    [][\A p \in Procs :
          (dry[p] /\ ~Stopped(p)) => (labels' = labels /\ entries' = entries)]_vars

DynPrefixes == {SemanaP, SquadP, PapelP, IaP, AlunoP, SeedP}
NullValues == {<<>>, <<"n", "a", "n">>, <<"N", "a", "N">>}
NullValued(name) == \E pre \in DynPrefixes, v \in NullValues : name = pre \o v

\* C7 -- Label suppression: no request that makes the tracker create labels
\* (POST /labels, or the label list of POST /issues) names a dynamic label
\* whose value is empty, "nan" or "NaN".
C7_LabelSuppression ==
    \A c \in calls : \A n \in c.names : ~NullValued(n)

\* C10 -- Label Ensurer: no create-label call is made for a name the tracker
\* already has.
C10_NoCreateOfExistingLabel ==
    \A p \in Procs :
        pc[p] \in {"base_post", "dyn_post"} => CurLabel(p).name \notin LabelNames

----------------------------------------------------------------------------
(* find_issue_by_seed on its own (specification SpecLookup): the lookup of *)
(* seed id "a" against listings of every shape                             *)

SeedA == SeedP \o <<"a">>
SeedAb == SeedP \o <<"a", "b">>

Ent(kind, n) ==
    [number |-> n, pr |-> kind = "pr", title |-> <<"e">>, body |-> <<>>,
     labels |-> IF kind = "other" THEN {SeedAb} ELSE {SeedA}]

Kinds == {"pr", "issue", "other"}

Tails == UNION {[1..n -> Kinds] : n \in 0..3}

Fillers ==
    {<<>>} \cup {[n \in 1..(m * per_page) |-> k] : k \in {"pr", "other"}, m \in 1..MaxFullPages}

MkEntries(ks) == [n \in 1..Len(ks) |-> Ent(ks[n], Len(ks) + 1 - n)]

LookupListings == {MkEntries(f \o t) : f \in Fillers, t \in Tails}

InitLookup ==
    /\ xl = <<Sheet(<<Row(<<"a">>, <<"t">>, E, E, E, E, E)>>)>>
    /\ labels = {}
    /\ entries \in LookupListings
    /\ serverPrefix \in BOOLEAN
    /\ calls = {}
    /\ http = <<>>
    /\ reportFile = <<"absent">>
    /\ runs = 1
    /\ pc = [p \in Procs |-> IF p = 1 THEN "lookup" ELSE "idle"]
    /\ dry \in [Procs -> {FALSE}] \cup {[p \in Procs |-> p = 1]}
    /\ bl = [p \in Procs |-> IF p = 1 THEN Len(base_labels) + 1 ELSE 1]
    /\ idx = [p \in Procs |-> 0]
    /\ j = [p \in Procs |-> IF p = 1 THEN Len(Dyn(Df[1])) + 1 ELSE 1]
    /\ page = [p \in Procs |-> 1]
    /\ report_rows = [p \in Procs |-> <<>>]
    /\ exitCode = [p \in Procs |-> -1]
    /\ env = [p \in Procs |-> [token |-> TRUE, repo |-> TRUE]]
    /\ writes = [p \in Procs |-> 0]

NextLookup == LookupPage(1)

SpecLookup == InitLookup /\ [][NextLookup]_vars

\* C8 -- Pull-request exclusion: what the lookup reports as the existing
\* issue is never a pull request, and when only pull requests carry the
\* exact seed label the lookup reports no issue.
C8_NoPullRequestReturned ==
    \A k \in 1..Len(report_rows[1]) :
        report_rows[1][k][1] = "exists" =>
            /\ \E n \in DOMAIN entries :
                  ~entries[n].pr /\ HtmlUrl(entries[n]) = report_rows[1][k][4]
            /\ NonPrWith(SeedA) # {}

C8_Witness ==
    /\ \E n \in DOMAIN entries : entries[n].pr /\ SeedA \in entries[n].labels
    /\ NonPrWith(SeedA) = {}
    /\ Len(entries) > per_page
    /\ pc[1] = "create"

----------------------------------------------------------------------------
(* gh() on its own (specification SpecGh): one call, every pair of answers *)

Statuses == {0, 200, 201, 403, 404, 422, 500}
Responses == {Resp(st, rl) : st \in Statuses, rl \in BOOLEAN}

NotCalled == [sent |-> 0, raised |-> FALSE, resp |-> Resp(0, FALSE)]

InitGh ==
    /\ xl = <<BlankSheet>>
    /\ labels = {}
    /\ entries = <<>>
    /\ serverPrefix = FALSE
    /\ calls = {}
    /\ http \in [r1 : Responses, r2 : Responses, out : {NotCalled}]
    /\ reportFile = <<"absent">>
    /\ runs = 0
    /\ pc = [p \in Procs |-> "idle"]
    /\ dry = [p \in Procs |-> FALSE]
    /\ bl = [p \in Procs |-> 1]
    /\ idx = [p \in Procs |-> 0]
    /\ j = [p \in Procs |-> 1]
    /\ page = [p \in Procs |-> 1]
    /\ report_rows = [p \in Procs |-> <<>>]
    /\ exitCode = [p \in Procs |-> -1]
    /\ env = [p \in Procs |-> [token |-> TRUE, repo |-> TRUE]]
    /\ writes = [p \in Procs |-> 0]

\* lines 18-26: one call of gh
GhCall ==
    /\ http.out = NotCalled
    /\ http' = [http EXCEPT !.out = Gh(http.r1, http.r2)]
    /\ UNCHANGED <<xl, labels, entries, serverPrefix, calls, reportFile, runs,
                   pc, dry, bl, idx, j, page, report_rows, exitCode, env, writes>>

NextGh == GhCall

SpecGh == InitGh /\ [][NextGh]_vars

Success(r) == r.status >= 200 /\ r.status < 400

\* C9 -- Client retry policy: a call sends one or two requests; the second
\* exactly when the first answer is a 403 that speaks of a rate limit; the
\* last answer is returned when it is a success and raised otherwise.
C9_RetryPolicy ==
    http.out # NotCalled =>
        /\ http.out.sent \in {1, 2}
        /\ http.out.sent = 2 <=> (http.r1.status = 403 /\ http.r1.rl)
        /\ http.out.resp = IF http.out.sent = 2 THEN http.r2 ELSE http.r1
        /\ http.out.raised <=> ~Success(http.out.resp)

C9_Witness ==
    /\ http.out.sent = 2
    /\ http.out.raised
    /\ http.r2.status = 403 /\ http.r2.rl

----------------------------------------------------------------------------
(* Properties of the batch, continued (specification Spec) *)

NoContent == \A k \in DOMAIN xl : xl[k].ncols = 0

FatalStart(p) == ~env[p].token \/ ~env[p].repo \/ NoContent

\* C11 -- Fatal startup: a run started without the token or the repository,
\* or on a workbook none of whose sheets has columns, has ended at once with
\* a non-zero exit status, having made no request, processed no row and not
\* written the report.
C11_FatalStartup ==
    \A p \in Procs :
        (pc[p] # "idle" /\ FatalStart(p)) =>
            /\ pc[p] = "exited"
            /\ exitCode[p] \in {2, 3}
            /\ calls = {}
            /\ report_rows[p] = <<>>
            /\ writes[p] = 0

C11_Witness ==
    /\ pc[1] = "exited"
    /\ ~env[1].token /\ env[1].repo
    /\ reportFile[1] = "written"
    /\ labels # {}

ToolRequests == {<<"GET", "labels/name">>, <<"POST", "labels">>,
                 <<"GET", "issues">>, <<"POST", "issues">>}

\* C12 -- Tracker frame: every step leaves each label and each issue of the
\* tracker in place and as it was (new ones are only added), and the only
\* requests made are GET /labels/{name}, POST /labels, GET /issues and
\* POST /issues.
C12_TrackerFrame ==
    [][/\ \A l \in labels :
             l \in labels' /\ \A m \in labels' : m.name = l.name => m = l
       /\ Len(entries') >= Len(entries)
       /\ SubSeq(entries', Len(entries') - Len(entries) + 1, Len(entries')) = entries
       /\ \A c \in calls' : <<c.method, c.path>> \in ToolRequests]_vars

C12_Witness ==
    /\ Len(entries) > per_page
    /\ ToolIssues # {}
    /\ \E l \in labels : l.color = "ededed"
    /\ \E c \in calls : c.method = "POST" /\ c.path = "labels"

EnsuredFor(k) ==
    {g.arg : g \in {x \in calls : x.row = k /\ x.method = "GET" /\ x.path = "labels/name"}}

\* C13 -- The label list of a row's create-issue payload is exactly the set
\* of dynamic labels that were passed to ensure_label for that row.
C13_PayloadIsEnsuredSet ==
    \A c \in calls :
        (c.method = "POST" /\ c.path = "issues") => c.names = EnsuredFor(c.row)

----------------------------------------------------------------------------
(* Properties of find_issue_by_seed (specification SpecLookup) *)

\* what the tracker lists for seed:a, and the places of the true matches
Listed == Listing(SeedA)
Matches == {n \in DOMAIN Listed : ~Listed[n].pr /\ SeedA \in Listed[n].labels}
FirstMatch == CHOOSE n \in Matches : \A m \in Matches : n <= m

LookupReturned == pc[1] # "lookup" /\ exitCode[1] = -1

\* C14 -- Seed lookup result: the lookup returns the first listed entry that
\* is no pull request and carries exactly seed:<id>, and not-found exactly
\* when the listing holds none; while it is on page n no such entry is on
\* the pages before, all of them full.
C14_LookupResult ==
    /\ LookupReturned =>
          IF Matches # {}
          THEN report_rows[1] =
                 << <<"exists", 1, <<"t">>, HtmlUrl(Listed[FirstMatch]), SeedA, <<>>>> >>
          ELSE IF dry[1] THEN report_rows[1] = << <<"dry-run", 1, <<"t">>, <<>>, <<>>, <<>>>> >>
          ELSE pc[1] = "create" /\ report_rows[1] = <<>>
    /\ pc[1] = "lookup" =>
          /\ (page[1] - 1) * per_page <= Len(Listed)
          /\ \A n \in Matches : n > (page[1] - 1) * per_page

C14_Witness ==
    /\ serverPrefix
    /\ LookupReturned
    /\ Matches # {}
    /\ FirstMatch > per_page + 1
    /\ \E n \in 1..per_page : ~Listed[n].pr

\* find_issue_by_seed keeps running: each request is made and answered
SpecLookupFair == SpecLookup /\ WF_vars(NextLookup)

\* the page-th run of per_page entries of the listing
PageItems ==
    LET first == (page[1] - 1) * per_page + 1
        last == IF page[1] * per_page < Len(Listed) THEN page[1] * per_page ELSE Len(Listed)
    IN  SubSeq(Listed, first, last)
PageHasMatch ==
    \E n \in DOMAIN PageItems : ~PageItems[n].pr /\ SeedA \in PageItems[n].labels

\* C15 -- Seed lookup termination: the lookup ends; it goes on to the next
\* page only from a full page without a match, asks for pages 1, 2, 3, ...
\* one after the other, and never is on a page beyond the first short one.
C15_LookupTerminates ==
    /\ <>(pc[1] # "lookup")
    /\ [][(pc[1] = "lookup" /\ pc'[1] = "lookup") =>
             /\ page'[1] = page[1] + 1
             /\ Len(PageItems) = per_page
             /\ ~PageHasMatch]_vars
    /\ [](pc[1] = "lookup" =>
             /\ page[1] >= 1
             /\ (page[1] - 1) * per_page <= Len(Listed))

C15_Witness ==
    /\ pc[1] = "create"
    /\ Len(Listed) = 2 * per_page
    /\ calls # {}

----------------------------------------------------------------------------
(* Per-row outcome *)

LastRecord(p) == report_rows'[p][Len(report_rows'[p])]

\* the status the order of decisions gives the row that p is leaving
StatusDue(p) ==
    LET row == CurRow(p) IN
    IF BlankRow(row) THEN "skip"
    ELSE IF NonPrWith(SeedLabel(row)) # {} THEN "exists"
    ELSE IF dry[p] THEN "dry-run"
    ELSE IF Len(entries') = Len(entries) + 1 THEN "created"
    ELSE "error"

CreateCalls(k) == {c \in calls : c.row = k /\ c.method = "POST" /\ c.path = "issues"}

\* C16 -- Per-row outcome: a row the loop leaves gets exactly one record,
\* whose status is skip, exists, dry-run, created or error decided in this
\* order; an error record has no URL and has a message; the create-issue call
\* is made once per row, after the row's label-ensure calls and a lookup that
\* found nothing.
C16_RowOutcome ==
    /\ [][\A p \in Procs :
            /\ idx'[p] = idx[p] + 1 =>
                  /\ report_rows'[p] = Append(report_rows[p], LastRecord(p))
                  /\ LastRecord(p)[1] = StatusDue(p)
                  /\ LastRecord(p)[1] = "error" =>
                        LastRecord(p)[4] = <<>> /\ LastRecord(p)[6] # <<>>
                  /\ LastRecord(p)[1] = "created" =>
                        LastRecord(p)[4] = HtmlUrl(entries'[1])
            /\ (~Stopped(p) /\ idx'[p] = idx[p]) => report_rows'[p] = report_rows[p]
            /\ (\E c \in calls' \ calls : c.method = "POST" /\ c.path = "issues") =>
                  \E q \in Procs : pc[q] = "create" /\ idx'[q] = idx[q] + 1
            /\ Len(entries') > Len(entries) =>
                  \E q \in Procs : pc[q] = "create"]_vars
    /\ [](\A p \in Procs : pc[p] = "create" =>
            /\ ~dry[p]
            /\ CreateCalls(idx[p] + 1) = {}
            /\ EnsuredFor(idx[p] + 1) = EnsuredNames(CurRow(p))
            /\ \E c \in calls : /\ c.row = idx[p] + 1
                                /\ c.method = "GET" /\ c.path = "issues"
                                /\ c.arg = SeedLabel(CurRow(p))
            /\ NonPrWith(SeedLabel(CurRow(p))) = {})
    /\ [](\A p \in Procs : ~Stopped(p) => Len(report_rows[p]) = idx[p])

C16_Witness ==
    /\ Len(report_rows[1]) = 2
    /\ report_rows[1][1][1] = "created"
    /\ report_rows[1][2][1] = "error"
    /\ report_rows[1][2][6] # <<>>

----------------------------------------------------------------------------
(* Report ordering and single write *)

\* the k-th record is the one of the k-th row
InOrder(rows) ==
    \A k \in 1..Len(rows) : rows[k][2] = k /\ rows[k][3] = Titulo(Df[k])

\* C17 -- Report ordering and single write: the rows are gone through one
\* after the other in spreadsheet order; the i-th record is the one of the
\* i-th row and carries the number i; a run writes the report at most once,
\* exactly when it has left the last row, with one record per row, and writes
\* nothing while rows are being processed.
C17_ReportOrderSingleWrite ==
    /\ [](\A p \in Procs :
            /\ InOrder(report_rows[p])
            /\ ~Stopped(p) => writes[p] = 0 /\ Len(report_rows[p]) = idx[p]
            /\ writes[p] <= 1
            /\ pc[p] = "exited" => (writes[p] = 1 <=> exitCode[p] = 0)
            /\ writes[p] = 1 =>
                  /\ reportFile[1] = "written"
                  /\ Len(reportFile[2]) = Len(Df)
                  /\ InOrder(reportFile[2]))
    /\ [][\A p \in Procs :
            /\ idx'[p] # idx[p] => idx'[p] = idx[p] + 1 \/ idx'[p] = 0
            /\ idx'[p] = idx[p] + 1 => idx[p] < Len(Df)
            /\ writes'[p] = writes[p] + 1 =>
                  /\ pc[p] = "row" /\ idx[p] = Len(Df)
                  /\ reportFile' = <<"written", report_rows[p]>>
                  /\ pc'[p] = "exited"
            /\ reportFile' # reportFile =>
                  \E q \in Procs : writes'[q] = writes[q] + 1
            /\ (pc[p] = "row" /\ idx[p] = Len(Df) /\ pc'[p] # pc[p]) =>
                  writes'[p] = writes[p] + 1]_vars

C17_Witness ==
    /\ pc[1] = "exited"
    /\ writes[1] = 1
    /\ Len(reportFile[2]) = 2
    /\ reportFile[2][1][1] = "error"
    /\ reportFile[2][2][1] = "skip"

----------------------------------------------------------------------------
(* Two runs of the tool against the same tracker, started independently *)

ConcWorkbooks ==
    {<<BlankSheet>>,
     <<Sheet(<<Row(<<"a">>, <<"t">>, E, E, E, E, E)>>)>>,
     <<Sheet(<<Row(<<"a">>, <<"t">>, <<"1">>, E, E, E, E),
               Row(E, <<"t">>, E, E, E, E, E)>>)>>}

InitConc ==
    /\ xl \in ConcWorkbooks
    /\ labels = {} /\ entries = <<>>
    /\ serverPrefix = FALSE
    /\ calls = {}
    /\ http = <<>>
    /\ reportFile = <<"absent">>
    /\ runs = 0
    /\ pc = [p \in Procs |-> "idle"]
    /\ dry = [p \in Procs |-> FALSE]
    /\ bl = [p \in Procs |-> 1]
    /\ idx = [p \in Procs |-> 0]
    /\ j = [p \in Procs |-> 1]
    /\ page = [p \in Procs |-> 1]
    /\ report_rows = [p \in Procs |-> <<>>]
    /\ exitCode = [p \in Procs |-> -1]
    /\ env = [p \in Procs |-> [token |-> TRUE, repo |-> TRUE]]
    /\ writes = [p \in Procs |-> 0]

\* a run started whatever the other one is doing
StartConc(p) ==
    /\ pc[p] = "idle"
    /\ Startup(p)

NextConc == \E p \in Procs : StartConc(p) \/ Step(p)

SpecConc == InitConc /\ [][NextConc]_vars

IssuesOfSeed(uid) == {k \in ToolIssues : MarkerOf(entries[k]) = uid}

\* C18 -- With two runs over the same spreadsheet interleaving on the same
\* tracker, no seed id has more than one issue created for it.
C18_CreatedOncePerSeedConcurrently ==
    \A k \in ToolIssues : Cardinality(IssuesOfSeed(MarkerOf(entries[k]))) <= 1

----------------------------------------------------------------------------
(* Seed binding *)

\* C19 -- Seed binding: the label list of every create-issue call holds
\* seed:<trimmed seed id of its row>, and every issue the tool created carries
\* the seed label its marker names, so that a lookup of the seed finds it.
C19_SeedBinding ==
    /\ \A c \in calls : (c.method = "POST" /\ c.path = "issues") =>
          (SeedP \o Strip(Df[c.row].uid)) \in c.names
    /\ \A k \in ToolIssues :
          (SeedP \o MarkerOf(entries[k])) \in entries[k].labels

====
